---- MODULE Spec2Model ----
(***************************************************************************)
(* Model of napari_nibabel/_reader.py: the reader hook napari_get_reader   *)
(* and the loader reader_function, together with the nibabel and numpy     *)
(* operations they call (splitext_addext, io_orientation, ornt_transform,  *)
(* apply_orientation, np.flip, np.transpose, np.stack, np.argsort).        *)
(*                                                                         *)
(* A path is a sequence of segments <<stem, ".ext", ".addext", ...>>; the  *)
(* string it stands for is their concatenation.  An array is a record      *)
(* [shape, at] where at maps every 0-based index tuple to a voxel; the     *)
(* voxel stored by a file at index idx is the tagged value <<path, idx>>,  *)
(* so that every voxel of a file is distinct and an output voxel names the *)
(* input voxel it was copied from.  Axis numbers, orientation codes and    *)
(* indices are 0-based as in Python; TLA+ sequences are 1-based, hence the *)
(* "+ 1" where an axis number indexes a sequence.                           *)
(***************************************************************************)
EXTENDS Integers, Sequences, FiniteSets, TLC

VARIABLES
    path,     \* the argument the host passes: [kind |-> "str", p] or [kind |-> "list", ps]
    disk,     \* the files the decoder can load: a function from paths to volumes
    pc,       \* "start", "sniffed" (napari_get_reader returned), "done" (reader_function returned or raised)
    reader,   \* what napari_get_reader returned: "reader_function" or "None"
    result    \* what reader_function returned, or the exception it raised

vars == <<path, disk, pc, reader, result>>

(***************************************************************************)
(* Bounds of the model.                                                    *)
(***************************************************************************)
MaxDim == 2      \* spatial extents of a volume range over 1..MaxDim
MaxT == 2        \* time points of a 4-D volume range over 1..MaxT
MaxZoom == 3     \* header spacings range over 0..MaxZoom
MaxPaths == 2    \* a list argument holds 1..MaxPaths paths

(***************************************************************************)
(* Small helpers on sequences.                                             *)
(***************************************************************************)
Range(s) == {s[i] : i \in DOMAIN s}

Reverse(s) == [i \in 1..Len(s) |-> s[Len(s) + 1 - i]]

Repeat(x, n) == [i \in 1..n |-> x]

SeqMax(s) == CHOOSE m \in Range(s) : \A x \in Range(s) : x <= m

(***************************************************************************)
(* numpy                                                                   *)
(***************************************************************************)
\* every index tuple of an array of the given shape
Indices(shape) ==
    IF Len(shape) = 0 THEN {<<>>}
    ELSE {idx \in [1..Len(shape) -> 0..(SeqMax(shape) - 1)] :
             \A d \in 1..Len(shape) : idx[d] < shape[d]}

ndim(arr) == Len(arr.shape)

\* np.flip(arr, axis=axis): reverse the order of the elements along one axis
np_flip(arr, axis) ==
    [shape |-> arr.shape,
     at |-> [idx \in Indices(arr.shape) |->
                arr.at[[idx EXCEPT ![axis + 1] = arr.shape[axis + 1] - 1 - idx[axis + 1]]]]]

\* arr.transpose(axes): axis d of the result is axis axes[d] of arr
np_transpose(arr, axes) ==
    LET shape == [d \in 1..Len(axes) |-> arr.shape[axes[d] + 1]]
        Pos(v) == CHOOSE d \in 1..Len(axes) : axes[d] = v
    IN  [shape |-> shape,
         at |-> [idx \in Indices(shape) |->
                    arr.at[[e \in 1..Len(axes) |-> idx[Pos(e - 1)]]]]]

\* A call that can raise returns [exc, val]: exc is "None" and val the value
\* returned, or exc names the exception raised.
Return(v) == [exc |-> "None", val |-> v]

Raise(e) == [exc |-> e, val |-> <<>>]

\* np.stack(arrays): join along a new leading axis; ValueError unless all shapes agree
np_stack(arrays) ==
    IF \E n \in 1..Len(arrays) : arrays[n].shape # arrays[1].shape
    THEN Raise("ValueError")
    ELSE LET shape == <<Len(arrays)>> \o arrays[1].shape
         IN  Return([shape |-> shape,
                     at |-> [idx \in Indices(shape) |-> arrays[idx[1] + 1].at[Tail(idx)]]])

\* np.argsort(s) for pairwise distinct entries: the 0-based index of the k-th smallest
np_argsort(s) ==
    [k \in 1..Len(s) |->
        (CHOOSE i \in 1..Len(s) : Cardinality({j \in 1..Len(s) : s[j] < s[i]}) = k - 1) - 1]

np_arange(n) == [i \in 1..n |-> i - 1]

Abs(x) == IF x < 0 THEN 0 - x ELSE x

\* np.argmax(s): the 0-based index of the first largest entry
np_argmax(s) ==
    (CHOOSE i \in 1..Len(s) :
        /\ \A j \in 1..Len(s) : s[j] <= s[i]
        /\ \A j \in 1..(i - 1) : s[j] < s[i]) - 1

(***************************************************************************)
(* nibabel.filename_parser                                                 *)
(***************************************************************************)
\* str.lower() on the segments the model uses
Lower(seg) ==
    CASE seg = ".NII" -> ".nii"
      [] seg = ".GZ" -> ".gz"
      [] seg = ".HDR" -> ".hdr"
      [] seg = ".TXT" -> ".txt"
      [] OTHER -> seg

\* the default addexts of splitext_addext
addexts == <<".gz", ".bz2", ".zst">>

\* _iendswith(filename, ext): the string ends with ext, compared in lower case.
\* The stem holds no dot, so only a suffix segment can match a dotted ext.
iendswith(filename, ext) ==
    /\ Len(filename) >= 2
    /\ Lower(filename[Len(filename)]) = ext

\* filename.strip('.') == '': the string holds nothing but dots
OnlyDots(filename) ==
    \A i \in 1..Len(filename) : filename[i] = IF i = 1 THEN "" ELSE "."

\* splitext_addext(filename) -> (root, ext, addext), match_case=False
splitext_addext(filename) ==
    LET hit == \E a \in 1..Len(addexts) : iendswith(filename, addexts[a])
        \* take off addext
        name == IF hit THEN SubSeq(filename, 1, Len(filename) - 1) ELSE filename
        addext == IF hit THEN filename[Len(filename)] ELSE ""
    IN  \* split off ext: rfind('.') < 0 when no suffix segment is left
        IF Len(name) < 2 \/ OnlyDots(name)
        THEN <<name, "", addext>>
        ELSE <<SubSeq(name, 1, Len(name) - 1), name[Len(name)], addext>>

(***************************************************************************)
(* nibabel.orientations.  An orientation is a sequence of rows             *)
(* <<axis, flip>>, one per voxel axis.  The affines of the model have a    *)
(* linear part that is a signed permutation matrix, for which the          *)
(* normalisation and polar decomposition of io_orientation return the      *)
(* linear part itself.                                                     *)
(***************************************************************************)
RECURSIVE io_orientation_loop(_, _, _)
io_orientation_loop(R, in_ax, ornt) ==
    IF in_ax = 3 THEN ornt
    ELSE LET col == [r \in 1..3 |-> R[r][in_ax + 1]]
             out_ax == np_argmax([r \in 1..3 |-> Abs(col[r])])
             flip == IF col[out_ax + 1] < 0 THEN -1 ELSE 1
             \* remove the identified axis from further consideration
             R2 == [R EXCEPT ![out_ax + 1] = <<0, 0, 0>>]
         IN  io_orientation_loop(R2, in_ax + 1, Append(ornt, <<out_ax, flip>>))

\* io_orientation(affine): for each voxel axis, the world axis it runs along and its sign
io_orientation(affine) ==
    LET RZS == [r \in 1..3 |-> SubSeq(affine[r], 1, 3)]
    IN  io_orientation_loop(RZS, 0, <<>>)

\* ornt_transform(start_ornt, end_ornt): the orientation that takes start to end
ornt_transform(start_ornt, end_ornt) ==
    LET Found(e) == {s \in 1..Len(start_ornt) : start_ornt[s][1] = end_ornt[e][1]}
        First(e) == CHOOSE s \in Found(e) : \A t \in Found(e) : s <= t
        \* the end rows that write row s of the result; the last write stays
        Writers(s) == {e \in 1..Len(end_ornt) : Found(e) # {} /\ First(e) = s}
        Last(s) == CHOOSE e \in Writers(s) : \A f \in Writers(s) : f <= e
    IN  IF Len(start_ornt) # Len(end_ornt) THEN Raise("ValueError")
        ELSE IF \E e \in 1..Len(end_ornt) : Found(e) = {} THEN Raise("ValueError")
        ELSE Return([s \in 1..Len(start_ornt) |->
                        IF Writers(s) = {} THEN start_ornt[s]
                        ELSE <<Last(s) - 1,
                               IF start_ornt[s][2] = end_ornt[Last(s)][2] THEN 1 ELSE -1>>])

RECURSIVE apply_flips(_, _, _)
apply_flips(arr, ornt, ax) ==
    IF ax = Len(ornt) THEN arr
    ELSE apply_flips(IF ornt[ax + 1][2] = -1 THEN np_flip(arr, ax) ELSE arr, ornt, ax + 1)

\* apply_orientation(arr, ornt): flip, then transpose, the first len(ornt) axes of arr
apply_orientation(arr, ornt) ==
    LET n == Len(ornt)
        t_arr == apply_flips(arr, ornt, 0)
        \* ornt indicates the transpose that has occurred - we reverse it
        sorted == np_argsort([i \in 1..n |-> ornt[i][1]])
        full_transpose == [d \in 1..ndim(arr) |-> IF d <= n THEN sorted[d] ELSE d - 1]
    IN  IF ndim(arr) < n THEN Raise("OrientationError")
        ELSE Return(np_transpose(t_arr, full_transpose))

(***************************************************************************)
(* The decoder: nib.load and the image object it returns.  A volume on     *)
(* disk is [shape, affine, header]; header is [has_get_zooms, zooms].      *)
(***************************************************************************)
\* nib.load(_path): the image object of the file, FileNotFoundError if there is none
nib_load(p, d) ==
    IF p \in DOMAIN d
    THEN Return([path |-> p, shape |-> d[p].shape, affine |-> d[p].affine,
                 header |-> d[p].header])
    ELSE Raise("FileNotFoundError")

\* imgobj.get_fdata(): the voxel grid of the file, in the file's axis order
get_fdata(imgobj) ==
    [shape |-> imgobj.shape,
     at |-> [idx \in Indices(imgobj.shape) |-> <<imgobj.path, idx>>]]

\* _obj[0]: an image object cannot be indexed, nibabel raises TypeError
image_getitem(obj, key) == Raise("TypeError")

\* header.get_zooms(): AttributeError when the header has no such accessor
get_zooms(header) ==
    IF header.has_get_zooms THEN Return(header.zooms) ELSE Raise("AttributeError")

(***************************************************************************)
(* napari_get_reader                                                       *)
(***************************************************************************)
\* the union of valid_exts over nibabel's all_image_classes
all_valid_exts ==
    {".nii", ".img", ".hdr", ".mnc", ".mgh", ".mgz", ".par", ".rec", ".gii",
     ".brik", ".head"}

Str(p) == [kind |-> "str", p |-> p]

List(ps) == [kind |-> "list", ps |-> ps]

\* isinstance(path, list): path = path[0]
first_path(arg) == IF arg.kind = "list" THEN arg.ps[1] ELSE arg.p

\* the membership test without lower-casing the extension
known_ext_case_sensitive(ext) == ext \in all_valid_exts

\* ext.lower() in all_valid_exts
known_ext(ext) == Lower(ext) \in all_valid_exts

napari_get_reader(arg) ==
    LET ext == splitext_addext(first_path(arg))[2]
    IN  IF ~known_ext(ext) THEN "None" ELSE "reader_function"

(***************************************************************************)
(* reader_function                                                         *)
(***************************************************************************)
viewer_ornt == <<<<0, -1>>, <<1, -1>>, <<2, -1>>>>

\* the flag switched on
apply_translation_enabled == TRUE

apply_translation == FALSE

\* paths = [path] if isinstance(path, str) else path
normalize_paths(arg) == IF arg.kind = "str" THEN <<arg.p>> ELSE arg.ps

\* the stacking branch taken for a single path as well
is_stack_from_one(paths) == Len(paths) >= 1

\* len(paths) > 1
is_stack(paths) == Len(paths) > 1

\* the first exception among the calls rs[1], rs[2], ..., or "None"
FirstExc(rs) ==
    IF \A n \in 1..Len(rs) : rs[n].exc = "None" THEN "None"
    ELSE rs[CHOOSE n \in 1..Len(rs) :
                /\ rs[n].exc # "None"
                /\ \A m \in 1..(n - 1) : rs[m].exc = "None"].exc

\* all([_obj.shape == _obj[0].shape for _obj in objects])
same_shapes(objects) ==
    LET items == [n \in 1..Len(objects) |-> image_getitem(objects[n], 0)]
    IN  IF FirstExc(items) # "None" THEN Raise(FirstExc(items))
        ELSE Return(\A n \in 1..Len(objects) : objects[n].shape = items[n].val.shape)

\* lines 91-107: the image object the metadata is taken from, and the data
load_data(paths, d) ==
    IF is_stack(paths)
    THEN LET loads == [n \in 1..Len(paths) |-> nib_load(paths[n], d)]
             objects == [n \in 1..Len(paths) |-> loads[n].val]
             same == same_shapes(objects)
             arrays == [n \in 1..Len(paths) |-> get_fdata(objects[n])]
             stacked == np_stack(arrays)
         IN  IF FirstExc(loads) # "None" THEN Raise(FirstExc(loads))
             ELSE IF same.exc # "None" THEN Raise(same.exc)
             ELSE IF ~same.val THEN Raise("ValueError")
             ELSE IF stacked.exc # "None" THEN Raise(stacked.exc)
             ELSE Return([imgobj |-> objects[1], data |-> stacked.val])
    ELSE LET load == nib_load(paths[1], d)
         IN  IF load.exc # "None" THEN Raise(load.exc)
             ELSE Return([imgobj |-> load.val, data |-> get_fdata(load.val)])

\* lines 112-119: align the data to the viewer, bring a 4-D array's last axis to the front
align_data(data, affine) ==
    LET img_ornt == io_orientation(affine)
        t_ornt == ornt_transform(img_ornt, viewer_ornt)
        aligned == apply_orientation(data, t_ornt.val)
    IN  IF t_ornt.exc # "None" THEN Raise(t_ornt.exc)
        ELSE IF aligned.exc # "None" THEN Raise(aligned.exc)
        ELSE IF ndim(aligned.val) = 4
             THEN Return(np_transpose(aligned.val, <<3, 0, 1, 2>>))
             ELSE aligned

\* the first three spacings left in header order
spatial_zooms_not_reversed(z) == SubSeq(z, 1, IF Len(z) < 3 THEN Len(z) ELSE 3)

\* header.get_zooms()[:3][::-1]
spatial_zooms(z) == Reverse(SubSeq(z, 1, IF Len(z) < 3 THEN Len(z) ELSE 3))

\* the scale values without the test for a zero spacing
generate_scale_without_zero_check(header, nd) ==
    LET z == get_zooms(header)
        zooms == Reverse(SubSeq(z.val, 1, IF Len(z.val) < 3 THEN Len(z.val) ELSE 3))
    IN  IF z.exc = "AttributeError" THEN Repeat(1, nd)
        ELSE IF nd > 3 THEN Repeat(1, nd - 3) \o zooms
        ELSE zooms

\* lines 126-137: the scale values; AttributeError and ValueError select the fallback
generate_scale(header, nd) ==
    LET z == get_zooms(header)
        zooms == spatial_zooms(z.val)
    IN  IF z.exc = "AttributeError" THEN Repeat(1, nd)
        ELSE IF \E i \in 1..Len(zooms) : zooms[i] = 0 THEN Repeat(1, nd)
        ELSE IF nd > 3 THEN Repeat(1, nd - 3) \o zooms
        ELSE zooms

\* lines 141-151: the translate values
generate_translate(affine, nd) ==
    IF apply_translation
    THEN LET t == [r \in 1..3 |-> affine[r][4]]
             signed == [i \in 1..3 |-> t[i] * viewer_ornt[i][2]]
             aligned == [i \in 1..3 |-> signed[viewer_ornt[i][1] + 1]]
         IN  \* a tuple plus an ndarray is an elementwise sum, when the lengths allow it
             IF nd > 3 /\ nd - 3 \notin {1, 3} THEN Raise("ValueError")
             ELSE Return(aligned)
    ELSE Return(Repeat(0, nd))

reader_function(arg) ==
    LET paths == normalize_paths(arg)
        loaded == load_data(paths, disk)
        imgobj == loaded.val.imgobj
        aligned == align_data(loaded.val.data, imgobj.affine)
        data == aligned.val
        zooms == generate_scale(imgobj.header, ndim(data))
        translate == generate_translate(imgobj.affine, ndim(data))
    IN  IF loaded.exc # "None" THEN Raise(loaded.exc)
        ELSE IF aligned.exc # "None" THEN Raise(aligned.exc)
        ELSE IF translate.exc # "None" THEN Raise(translate.exc)
        ELSE Return(<<[data |-> data,
                       add_kwargs |-> [metadata |-> [imgobj |-> imgobj],
                                       rgb |-> FALSE,
                                       scale |-> zooms,
                                       translate |-> translate.val],
                       layer_type |-> "image"]>>)

(***************************************************************************)
(* The inputs: paths, volumes, disks.                                      *)
(***************************************************************************)
PathA == <<"a", ".nii">>

PathB == <<"b", ".nii", ".gz">>

PathC == <<"c", ".txt">>

Stems == {"", "a", "b"}

Segments == {".nii", ".NII", ".gz", ".GZ", ".hdr", ".txt"}

\* every path of a stem and at most two suffix segments
Paths ==
    {<<st>> : st \in Stems}
    \cup {<<st, x>> : st \in Stems, x \in Segments}
    \cup {<<st, x, y>> : st \in Stems, x \in Segments, y \in Segments}

\* the sequences over S of length lo..hi
SeqsOf(S, lo, hi) == UNION {[1..n -> S] : n \in lo..hi}

Shapes3 == {<<i, j, k>> : i \in 1..MaxDim, j \in 1..MaxDim, k \in 1..MaxDim}

Shapes4 == {s \o <<t>> : s \in Shapes3, t \in 1..MaxT}

Cube3 == <<MaxDim, MaxDim, MaxDim>>

Perms == {p \in [1..3 -> 0..2] : \A i, j \in 1..3 : p[i] = p[j] => i = j}

Signs == [1..3 -> {-1, 1}]

Translations == {<<0, 0, 0>>, <<5, -7, 9>>}

\* the affine whose voxel axis c runs along world axis perm[c] with sign sign[c]
Affine(perm, sign, trans) ==
    [r \in 1..4 |->
        IF r = 4 THEN <<0, 0, 0, 1>>
        ELSE [c \in 1..4 |->
                IF c = 4 THEN trans[r]
                ELSE IF perm[c] = r - 1 THEN sign[c] ELSE 0]]

Identity == Affine(<<0, 1, 2>>, <<1, 1, 1>>, <<0, 0, 0>>)

Header(z) == [has_get_zooms |-> TRUE, zooms |-> z]

NoZooms == [has_get_zooms |-> FALSE, zooms |-> <<>>]

\* the headers of an n-D file: every spatial spacing in 0..MaxZoom, a time step of 0 or 1
Headers(n) ==
    {NoZooms}
    \cup {Header(z) : z \in {y \in [1..n -> 0..MaxZoom] : n > 3 => y[4] \in {0, 1}}}

PlainHeader(n) == Header(IF n > 3 THEN <<1, 2, 3, 1>> ELSE <<1, 2, 3>>)

Volume(shape, affine, header) == [shape |-> shape, affine |-> affine, header |-> header]

\* every shape and affine, under a plain header or a header without spacings
VolumesByGeometry ==
    {Volume(s, Affine(p, g, t), h) :
        s \in Shapes3 \cup Shapes4, p \in Perms, g \in Signs, t \in Translations,
        h \in {NoZooms}} 
    \cup {Volume(s, Affine(p, g, t), PlainHeader(Len(s))) :
        s \in Shapes3 \cup Shapes4, p \in Perms, g \in Signs, t \in Translations}

\* every header and axis permutation, on the largest cube
VolumesByHeader ==
    {Volume(s, Affine(p, <<1, 1, 1>>, <<0, 0, 0>>), h) :
        s \in {Cube3}, p \in Perms, h \in Headers(3)}
    \cup {Volume(s, Affine(p, <<1, 1, 1>>, <<0, 0, 0>>), h) :
        s \in {Cube3 \o <<t>> : t \in 1..MaxT}, p \in Perms, h \in Headers(4)}

Volumes == VolumesByGeometry \cup VolumesByHeader

VolumeB == Volume(<<2, 1, 2>>, Identity, Header(<<1, 1, 1>>))

DiskOf(va) == (PathA :> va) @@ (PathB :> VolumeB)

DefaultDisk == DiskOf(Volume(<<2, 1, 2>>, Identity, PlainHeader(3)))

\* any first path, followed by paths of files that exist or are not images
SniffArgs ==
    {Str(p) : p \in Paths}
    \cup {List(<<p>> \o rest) :
            p \in Paths, rest \in SeqsOf({PathA, PathB, PathC}, 0, MaxPaths - 1)}

\* file a alone, in a list of one, or first in a list of files on disk
LoadArgs ==
    {Str(PathA)}
    \cup {List(<<PathA>> \o rest) : rest \in SeqsOf({PathA, PathB}, 0, MaxPaths - 1)}

(***************************************************************************)
(* The host: it asks napari_get_reader for a reader and, given one, calls  *)
(* it with the same argument.                                              *)
(***************************************************************************)
Pending == [exc |-> "pending", val |-> <<>>]

Init ==
    /\ \/ path \in SniffArgs /\ disk = DefaultDisk
       \/ path \in LoadArgs /\ disk \in {DiskOf(v) : v \in Volumes}
    /\ pc = "start"
    /\ reader = "pending"
    /\ result = Pending

NapariGetReader ==
    /\ pc = "start"
    /\ reader' = napari_get_reader(path)
    /\ pc' = "sniffed"
    /\ UNCHANGED <<path, disk, result>>

ReaderFunction ==
    /\ pc = "sniffed"
    /\ reader = "reader_function"
    /\ result' = reader_function(path)
    /\ pc' = "done"
    /\ UNCHANGED <<path, disk, reader>>

Next == NapariGetReader \/ ReaderFunction

Spec == Init /\ [][Next]_vars

(***************************************************************************)
(* Vocabulary of the properties.                                           *)
(***************************************************************************)
ArgPaths == normalize_paths(path)

Single == Len(ArgPaths) = 1

AllOnDisk == \A n \in 1..Len(ArgPaths) : ArgPaths[n] \in DOMAIN disk

FirstFile == disk[ArgPaths[1]]

Returned == pc = "done" /\ result.exc = "None"

Layer == result.val[1]

\* the linear part of the affine is the identity: native orientation (i,j,k), all signs +
NativeIJK(affine) == \A r, c \in 1..3 : affine[r][c] = IF r = c THEN 1 ELSE 0

\* the n-th sub-array (n = 1, 2, ...) along the leading axis
SubArray(arr, n) ==
    [shape |-> Tail(arr.shape),
     at |-> [idx \in Indices(Tail(arr.shape)) |-> arr.at[<<n - 1>> \o idx]]]

\* output axis a of data carries source axis p: two output voxels agree on
\* index a exactly when the source voxels they copy agree on index p
Placed(data, a, p) ==
    \A idx, idx2 \in Indices(data.shape) :
        (idx[a] = idx2[a]) <=> (data.at[idx][2][p] = data.at[idx2][2][p])

\* the lower-cased extension of a path, a trailing compression suffix ignored
ExtensionOf(p) ==
    LET suffixes == Tail(p)
        compressed == suffixes # <<>> /\ Lower(suffixes[Len(suffixes)]) \in {".gz", ".bz2", ".zst"}
        core == IF compressed THEN SubSeq(suffixes, 1, Len(suffixes) - 1) ELSE suffixes
    IN  IF core = <<>> THEN "" ELSE Lower(core[Len(core)])

(***************************************************************************)
(* The properties.                                                         *)
(***************************************************************************)
\* C1: a single 3-D file of shape (I,J,K) in native orientation (i,j,k), all
\* signs +, is returned as an array of shape (K,J,I) with
\* out[a,b,c] = in[I-1-c, J-1-b, K-1-a].
C1_TargetOrientation3D ==
    (pc = "done" /\ Single /\ AllOnDisk /\ Len(FirstFile.shape) = 3
        /\ NativeIJK(FirstFile.affine))
    => LET I == FirstFile.shape[1]
           J == FirstFile.shape[2]
           K == FirstFile.shape[3]
       IN  /\ result.exc = "None"
           /\ Layer.data.shape = <<K, J, I>>
           /\ \A idx \in Indices(<<K, J, I>>) :
                 Layer.data.at[idx]
                    = <<ArgPaths[1], <<I - 1 - idx[3], J - 1 - idx[2], K - 1 - idx[1]>>>>

\* C2: every single 4-D file of shape (I,J,K,T) is returned as an array of
\* shape (T,K,J,I).
C2_Shape4D ==
    (pc = "done" /\ Single /\ AllOnDisk /\ Len(FirstFile.shape) = 4)
    => /\ result.exc = "None"
       /\ Layer.data.shape = Reverse(FirstFile.shape)

\* C3: a list of N >= 2 paths of 3-D volumes of one shape succeeds, the
\* leading axis of the result has length N and out[n] is the aligned array
\* of the n-th path loaded alone.
C3_StackOfAligned ==
    (pc = "done" /\ Len(ArgPaths) >= 2 /\ AllOnDisk
        /\ \A n \in 1..Len(ArgPaths) :
              /\ Len(disk[ArgPaths[n]].shape) = 3
              /\ disk[ArgPaths[n]].shape = FirstFile.shape)
    => /\ result.exc = "None"
       /\ Layer.data.shape[1] = Len(ArgPaths)
       /\ \A n \in 1..Len(ArgPaths) :
             SubArray(Layer.data, n) = reader_function(Str(ArgPaths[n])).val[1].data

\* C4: a list of two or more paths in which some volume's shape differs from
\* the first volume's shape fails with the shape-mismatch ValueError.
C4_ShapeMismatchError ==
    (pc = "done" /\ Len(ArgPaths) >= 2 /\ AllOnDisk
        /\ \E n \in 1..Len(ArgPaths) : disk[ArgPaths[n]].shape # FirstFile.shape)
    => result.exc = "ValueError"

\* C5: in every result returned, scale has one entry per dimension of the
\* returned array and every entry is strictly positive.
C5_ScalePositive ==
    Returned
    => /\ Len(Layer.add_kwargs.scale) = ndim(Layer.data)
       /\ \A i \in 1..Len(Layer.add_kwargs.scale) : Layer.add_kwargs.scale[i] > 0

C5_Witness ==
    /\ Returned
    /\ ndim(Layer.data) = 4
    /\ FirstFile.header.has_get_zooms
    /\ FirstFile.header.zooms[2] = 0
    /\ Layer.add_kwargs.scale = <<1, 1, 1, 1>>

\* C6: for a 3-D volume, positive header spacings (dx,dy,dz) give the scale
\* (dz,dy,dx); a zero among them, or a header without the accessor, gives a
\* successful load with scale 1.0 on every axis.
C6_ScaleDerivation3D ==
    (pc = "done" /\ Single /\ AllOnDisk /\ Len(FirstFile.shape) = 3)
    => LET h == FirstFile.header
           positive == h.has_get_zooms /\ \A i \in 1..3 : h.zooms[i] > 0
       IN  /\ result.exc = "None"
           /\ positive
                => Layer.add_kwargs.scale = <<h.zooms[3], h.zooms[2], h.zooms[1]>>
           /\ ~positive => Layer.add_kwargs.scale = <<1, 1, 1>>

C6_Witness ==
    /\ Returned
    /\ Single
    /\ FirstFile.header = Header(<<1, 2, 3>>)
    /\ Layer.add_kwargs.scale = <<3, 2, 1>>

\* C7: in every result returned, translate is all zero, one entry per
\* dimension of the returned array, whatever the affine's translation is.
C7_TranslateZero ==
    Returned => Layer.add_kwargs.translate = Repeat(0, ndim(Layer.data))

C7_Witness ==
    /\ Returned
    /\ FirstFile.affine[1][4] # 0
    /\ ndim(Layer.data) = 4
    /\ Layer.add_kwargs.translate = <<0, 0, 0, 0>>

\* C8: napari_get_reader returns reader_function exactly when the
\* lower-cased extension of the path, a compression suffix ignored, is in
\* all_valid_exts, and None otherwise; of a list only the first element counts.
C8_SniffByExtension ==
    pc # "start"
    => LET first == IF path.kind = "list" THEN path.ps[1] ELSE path.p
       IN  /\ reader = "reader_function" <=> ExtensionOf(first) \in all_valid_exts
           /\ reader = "None" <=> ExtensionOf(first) \notin all_valid_exts

C8_Witness ==
    /\ pc = "sniffed"
    /\ path = List(<<<<"a", ".NII", ".GZ">>, PathC>>)
    /\ reader = "reader_function"

\* C9: reader_function([p]) returns what reader_function(p) returns: the
\* stacking branch is not taken and the array has no leading stack axis.
C9_ListOfOne ==
    (pc = "done" /\ path.kind = "list" /\ Len(path.ps) = 1)
    => /\ result = reader_function(Str(path.ps[1]))
       /\ AllOnDisk
            => /\ result.exc = "None"
               /\ ndim(Layer.data) = Len(FirstFile.shape)
               /\ Layer.layer_type = "image"

C9_Witness ==
    /\ Returned
    /\ path = List(<<PathA>>)
    /\ Len(FirstFile.shape) = 4
    /\ ndim(Layer.data) = 4

\* C10: for a single 3-D file with positive header spacings, scale[a] is the
\* header spacing of the source voxel axis placed at output axis a.
C10_ScaleMatchesAxes ==
    (Returned /\ Single /\ Len(FirstFile.shape) = 3
        /\ FirstFile.header.has_get_zooms
        /\ \A i \in 1..3 : FirstFile.header.zooms[i] > 0)
    => \A a \in 1..3 :
          \E p \in 1..3 :
             /\ Placed(Layer.data, a, p)
             /\ Layer.add_kwargs.scale[a] = FirstFile.header.zooms[p]

====
